---- MODULE Spec2Model ----
(***************************************************************************)
(* cbcheck (src/main.go): a one-shot poller.  Every invocation loads the   *)
(* config, opens and migrates the sqlite file, fetches the list of funds,  *)
(* and for every fund it has no send_lists row for posts a Slack webhook   *)
(* and then stores the fund's id.  The sqlite file is the only state that  *)
(* survives an invocation; the model runs the program several times        *)
(* against the same file.                                                  *)
(*                                                                         *)
(* TLA+ strings are ASCII here, so the Japanese literals of the source are *)
(* written in romaji; the definition of each names the literal it stands   *)
(* for.                                                                    *)
(***************************************************************************)
EXTENDS Naturals, Sequences, FiniteSets, TLC

VARIABLES
    pc,            \* position of main(): the statement about to run
    run,           \* number of the current invocation
    db,            \* rows of table send_lists, in insertion order (fund_id of each)
    tableExists,   \* the sqlite file holds table send_lists with its unique index
    resp,          \* what http.DefaultClient.Do returned: [status, body], or NoResp
    list,          \* response.Data.List
    i,             \* index of the range loop, 1-based
    sendList,      \* sendList.FundID of the current iteration
    err,           \* the err of the last call checked: "nil" or "error"
    lookupRes,     \* history: how First ended: "found", "notfound", "error", "none"
    lastMsg,       \* history: the last slack.WebhookMessage handed to PostWebhook
    postsOK,       \* history: successful webhook posts per fund id, over all runs
    insertFailed,  \* history: failed db.Create calls per fund id, over all runs
    startDb,       \* history: the fund ids stored when this run started
    okIds,         \* history: ids a post of this run succeeded for
    failIds,       \* history: ids a post of this run failed for
    nPost,         \* history: webhook posts attempted in this run
    nPostOK,       \* history: webhook posts that succeeded in this run
    nInsert,       \* history: db.Create calls made in this run
    nLookup,       \* history: First lookups made in this run
    nFetch,        \* history: HTTP GETs issued in this run
    examined,      \* history: the funds the loop body has been entered for, in order
    stages,        \* history: the stages this run has started, in order
    failedAt,      \* history: the stage whose failure was reported, or "none"
    migrateErr,    \* history: AutoMigrate of this run returned an error
    nFault,        \* history: failures the environment has produced so far
    lookupFailed   \* history: some First lookup, of any run, returned an error

vars == << pc, run, db, tableExists, resp, list, i, sendList, err, lookupRes,
           lastMsg, postsOK, insertFailed, startDb, okIds, failIds, nPost,
           nPostOK, nInsert, nLookup, nFetch, examined, stages, failedAt,
           migrateErr, nFault, lookupFailed >>

(***************************************************************************)
(* Bounds of the model.                                                    *)
(***************************************************************************)
MaxRuns == 2       \* invocations against the same database file
MaxLen == 2        \* funds in one fetched list
MaxCurLen == 1     \* funds in one fetched list of SpecCurrency
MaxFaults == 2     \* failures of the file system, the database and the network

(***************************************************************************)
(* Funds.  Only id and currencyId decide anything; the other fields are    *)
(* opaque strings copied into the message.                                 *)
(***************************************************************************)
\* The identifiers a fetched fund may carry: the empty string (a missing "id"
\* key decodes to it) and an ordinary identifier.
FundIDs == {"", "F1"}

CurrencyIDs == {"1", "2", "3", "9", "", "abc"}

Fund(id, cur) ==
    [ ID |-> id, Name |-> "name", SubTitle |-> "subtitle", Rate |-> "1.5",
      Description |-> "description", Url |-> "/funds/x",
      RegionName |-> "region", ProjectName |-> "project",
      OpenTime |-> "open", CloseTime |-> "close",
      RaiseMethod |-> "method", CurrencyID |-> cur ]

CrowdBankURL == "https://crowdbank.jp"

\* "日本円", "USドル", "AUドル", "不明"
LabelYen == "Nihon-en"
LabelUSD == "US-doru"
LabelAUD == "AU-doru"
LabelUnknown == "fumei"

\* Currency with the case "3" left out.
CurrencyNoAUD(f) ==
    CASE f.CurrencyID = "1" -> LabelYen
      [] f.CurrencyID = "2" -> LabelUSD
      [] OTHER -> LabelUnknown

\* func (f *Fund) Currency() string
Currency(f) ==
    CASE f.CurrencyID = "1" -> LabelYen
      [] f.CurrencyID = "2" -> LabelUSD
      [] f.CurrencyID = "3" -> LabelAUD
      [] OTHER -> LabelUnknown

Field(title, value) == [ Title |-> title, Value |-> value, Short |-> TRUE ]

\* The titles are "地域", "プロジェクト", "募集開始日", "募集終了日", "利率",
\* "募集方法", "通貨".
WebhookMessage(fund) ==
    [ Text |-> fund.Name,
      Title |-> fund.SubTitle,
      TitleLink |-> CrowdBankURL \o fund.Url,
      AttText |-> fund.Description,
      Fields |-> << Field("chiiki", fund.RegionName),
                    Field("purojekuto", fund.ProjectName),
                    Field("boshuu-kaishi-bi", fund.OpenTime),
                    Field("boshuu-shuuryou-bi", fund.CloseTime),
                    Field("riritsu", fund.Rate \o "%"),
                    Field("boshuu-houhou", fund.RaiseMethod),
                    Field("tsuuka", Currency(fund)) >>,
      MarkdownIn |-> << "text" >> ]

NoMsg == [ Text |-> "none" ]
\* A response body: bytes that are no JSON value, or an envelope
\* {"data": {"list": [...]}} with its funds.
Malformed == [ json |-> FALSE, funds |-> << >> ]
Envelope(funds) == [ json |-> TRUE, funds |-> funds ]
NoResp == [ status |-> 0, body |-> Malformed ]

RECURSIVE SeqsUpTo(_, _)
SeqsUpTo(S, n) ==
    IF n = 0 THEN { << >> }
    ELSE LET shorter == SeqsUpTo(S, n - 1)
         IN  shorter \cup { Append(s, x) : s \in shorter, x \in S }

MainFunds == { Fund(id, "1") : id \in FundIDs }
CurrencyFunds == { Fund("F1", cur) : cur \in CurrencyIDs }

\* What the server may answer: a body that is no JSON, or an envelope with a list.
MainBodies == { Malformed } \cup { Envelope(l) : l \in SeqsUpTo(MainFunds, MaxLen) }
CurrencyBodies == { Malformed } \cup { Envelope(l) : l \in SeqsUpTo(CurrencyFunds, MaxCurLen) }

Statuses == {200, 500}

ZeroCount == [ id \in FundIDs |-> 0 ]

Rows == { db[k] : k \in 1..Len(db) }

StageOrder == << "load", "open", "fetch", "decode", "loop" >>

IsPrefix(s, t) == Len(s) <= Len(t) /\ \A k \in 1..Len(s) : s[k] = t[k]

(***************************************************************************)
(* The state a fresh invocation starts in.                                 *)
(***************************************************************************)
FreshRun ==
    /\ pc = "load"
    /\ resp = NoResp
    /\ list = << >>
    /\ i = 1
    /\ sendList = ""
    /\ err = "nil"
    /\ lookupRes = "none"
    /\ lastMsg = NoMsg
    /\ okIds = {}
    /\ failIds = {}
    /\ nPost = 0
    /\ nPostOK = 0
    /\ nInsert = 0
    /\ nLookup = 0
    /\ nFetch = 0
    /\ examined = << >>
    /\ stages = << >>
    /\ failedAt = "none"
    /\ migrateErr = FALSE

Init ==
    /\ FreshRun
    /\ startDb = {}
    /\ run = 1
    /\ db = << >>
    /\ tableExists = FALSE
    /\ postsOK = ZeroCount
    /\ insertFailed = ZeroCount
    /\ nFault = 0
    /\ lookupFailed = FALSE

\* The tables earlier invocations can have left in the file.
StoredTables == { << >>, << "" >>, << "F1" >>, << "", "F1" >>, << "F1", "" >> }

\* An invocation that finds any such table, its own history empty.
InitStored ==
    /\ db \in StoredTables
    /\ tableExists \in { t \in BOOLEAN : db # << >> => t }
    /\ FreshRun
    /\ startDb = Rows
    /\ run = 1
    /\ postsOK = ZeroCount
    /\ insertFailed = ZeroCount
    /\ nFault = 0
    /\ lookupFailed = FALSE

(***************************************************************************)
(* main(), one action per statement that can fail or branch.               *)
(***************************************************************************)
\* The environment makes a call fail that could have succeeded.
Fault ==
    /\ nFault < MaxFaults
    /\ nFault' = nFault + 1

Fatal(stage) ==
    /\ pc' = "fatal"
    /\ err' = "error"
    /\ failedAt' = stage

\* LoadConfig with the failure only logged: main goes on to open the database.
LoadConfigIgnoreError ==
    /\ pc = "load"
    /\ stages' = Append(stages, "load")
    /\ \/ /\ pc' = "open"
          /\ UNCHANGED << err, failedAt, nFault >>
       \/ /\ Fault
          /\ pc' = "open"
          /\ err' = "error"
          /\ failedAt' = "load"
    /\ UNCHANGED << run, db, tableExists, resp, list, i, sendList, lookupRes,
                    lastMsg, postsOK, insertFailed, startDb, okIds, failIds,
                    nPost, nPostOK, nInsert, nLookup, nFetch, examined,
                    migrateErr, lookupFailed >>

\* conf, err := Load(confPath); open, read or yaml failure is fatal.
LoadConfig ==
    /\ pc = "load"
    /\ stages' = Append(stages, "load")
    /\ \/ /\ pc' = "open"
          /\ UNCHANGED << err, failedAt, nFault >>
       \/ /\ Fault
          /\ Fatal("load")
    /\ UNCHANGED << run, db, tableExists, resp, list, i, sendList, lookupRes,
                    lastMsg, postsOK, insertFailed, startDb, okIds, failIds,
                    nPost, nPostOK, nInsert, nLookup, nFetch, examined,
                    migrateErr, lookupFailed >>

\* db, err := gorm.Open(sqlite.Open(conf.Database), ...)
OpenDatabase ==
    /\ pc = "open"
    /\ stages' = Append(stages, "open")
    /\ \/ /\ pc' = "migrate"
          /\ UNCHANGED << err, failedAt, nFault >>
       \/ /\ Fault
          /\ Fatal("open")
    /\ UNCHANGED << run, db, tableExists, resp, list, i, sendList, lookupRes,
                    lastMsg, postsOK, insertFailed, startDb, okIds, failIds,
                    nPost, nPostOK, nInsert, nLookup, nFetch, examined,
                    migrateErr, lookupFailed >>

\* db.AutoMigrate(&SendList{}): the error it returns is dropped.
AutoMigrate ==
    /\ pc = "migrate"
    /\ \/ /\ tableExists' = TRUE
          /\ UNCHANGED << migrateErr, nFault >>
       \/ /\ Fault
          /\ migrateErr' = TRUE
          /\ UNCHANGED tableExists
    /\ pc' = "request"
    /\ UNCHANGED << run, db, resp, list, i, sendList, err, lookupRes, lastMsg,
                    postsOK, insertFailed, startDb, okIds, failIds, nPost,
                    nPostOK, nInsert, nLookup, nFetch, examined, stages,
                    failedAt, lookupFailed >>

\* http.NewRequest on the constant URL, then http.DefaultClient.Do(req): err is
\* non-nil on a network failure only, whatever the status of the response.
DoRequest(bodies) ==
    /\ pc = "request"
    /\ stages' = Append(stages, "fetch")
    /\ nFetch' = nFetch + 1
    /\ \/ /\ \E st \in Statuses, b \in bodies :
                resp' = [ status |-> st, body |-> b ]
          /\ pc' = "decode"
          /\ UNCHANGED << err, failedAt, nFault >>
       \/ /\ Fault
          /\ Fatal("fetch")
          /\ UNCHANGED resp
    /\ UNCHANGED << run, db, tableExists, list, i, sendList, lookupRes,
                    lastMsg, postsOK, insertFailed, startDb, okIds, failIds,
                    nPost, nPostOK, nInsert, nLookup, examined, migrateErr,
                    lookupFailed >>

\* json.NewDecoder(resp.Body).Decode(&response)
DecodeJSON ==
    /\ pc = "decode"
    /\ stages' = Append(stages, "decode")
    /\ \/ /\ resp.body.json
          /\ list' = resp.body.funds
          /\ pc' = "range"
          /\ UNCHANGED << err, failedAt >>
       \/ /\ ~resp.body.json
          /\ Fatal("decode")
          /\ UNCHANGED list
    /\ UNCHANGED << run, db, tableExists, resp, i, sendList, lookupRes,
                    lastMsg, postsOK, insertFailed, startDb, okIds, failIds, nPost,
                    nPostOK, nInsert, nLookup, nFetch, examined, migrateErr,
                    nFault, lookupFailed >>

\* for _, fund := range response.Data.List
RangeList ==
    /\ pc = "range"
    /\ stages' = IF i = 1 THEN Append(stages, "loop") ELSE stages
    /\ \/ /\ i <= Len(list)
          /\ examined' = Append(examined, list[i])
          /\ sendList' = ""
          /\ pc' = "lookup"
       \/ /\ i > Len(list)
          /\ pc' = "done"
          /\ UNCHANGED << examined, sendList >>
    /\ UNCHANGED << run, db, tableExists, resp, list, i, err, lookupRes,
                    lastMsg, postsOK, insertFailed, startDb, okIds, failIds,
                    nPost, nPostOK, nInsert, nLookup, nFetch, failedAt,
                    migrateErr, nFault, lookupFailed >>

\* The decision taken from the lookup having found a row, whatever its fund_id.
AlreadySentIfFound(fundID) == lookupRes' = "found"

\* The decision of line 138: the row First filled in has a fund_id.
AlreadySent(fundID) == fundID # ""

\* db.Where("fund_id = ?", fund.ID).First(&sendList), its error dropped, and
\* the skip of an already sent fund.
First ==
    /\ pc = "lookup"
    /\ nLookup' = nLookup + 1
    /\ \/ /\ tableExists
          /\ list[i].ID \in Rows
          /\ lookupRes' = "found"
          /\ sendList' = list[i].ID
          /\ UNCHANGED << nFault, lookupFailed >>
       \/ /\ tableExists
          /\ list[i].ID \notin Rows
          /\ lookupRes' = "notfound"
          /\ sendList' = ""
          /\ UNCHANGED << nFault, lookupFailed >>
       \/ /\ IF tableExists THEN Fault ELSE UNCHANGED nFault
          /\ lookupRes' = "error"
          /\ lookupFailed' = TRUE
          /\ sendList' = ""
    /\ IF AlreadySent(sendList')
       THEN pc' = "range" /\ i' = i + 1
       ELSE pc' = "post" /\ i' = i
    /\ UNCHANGED << run, db, tableExists, resp, list, err, lastMsg, postsOK,
                    insertFailed, startDb, okIds, failIds, nPost, nPostOK,
                    nInsert, nFetch, examined, stages, failedAt, migrateErr >>

\* The continue of line 193 missing: main falls through to db.Create.
AfterPostErrorFallThrough ==
    /\ pc' = "insert"
    /\ i' = i

\* log.Fatalf in the place of log.Printf: the failed post ends the process.
AfterPostErrorFatal ==
    /\ pc' = "fatal"
    /\ i' = i

\* Where main goes when slack.PostWebhook returned an error: log, continue.
AfterPostError ==
    /\ pc' = "range"
    /\ i' = i + 1

\* err := slack.PostWebhook(conf.SlackWebhookURL, &slack.WebhookMessage{...})
PostWebhook ==
    /\ pc = "post"
    /\ nPost' = nPost + 1
    /\ lastMsg' = WebhookMessage(list[i])
    /\ \/ /\ err' = "nil"
          /\ postsOK' = [ postsOK EXCEPT ![list[i].ID] = @ + 1 ]
          /\ okIds' = okIds \cup { list[i].ID }
          /\ nPostOK' = nPostOK + 1
          /\ pc' = "insert"
          /\ UNCHANGED << i, failIds, nFault >>
       \/ /\ Fault
          /\ err' = "error"
          /\ failIds' = failIds \cup { list[i].ID }
          /\ AfterPostError
          /\ UNCHANGED << postsOK, okIds, nPostOK >>
    /\ UNCHANGED << run, db, tableExists, resp, list, sendList, lookupRes,
                    insertFailed, startDb, nInsert, nLookup, nFetch, examined,
                    stages, failedAt, migrateErr, lookupFailed >>

\* FundID without the unique tag: no insert is refused.
NoUniqueIndex(fundID) == FALSE

\* FundID string `gorm:"unique"`: a second row with the same fund_id is refused.
UniqueViolation(fundID) == fundID \in Rows

\* err = db.Create(&SendList{FundID: fund.ID}).Error; a failure is logged.
Create ==
    /\ pc = "insert"
    /\ nInsert' = nInsert + 1
    /\ \/ /\ tableExists
          /\ ~UniqueViolation(list[i].ID)
          /\ db' = Append(db, list[i].ID)
          /\ err' = "nil"
          /\ UNCHANGED << insertFailed, nFault >>
       \/ /\ IF tableExists /\ ~UniqueViolation(list[i].ID)
             THEN Fault
             ELSE UNCHANGED nFault
          /\ err' = "error"
          /\ insertFailed' = [ insertFailed EXCEPT ![list[i].ID] = @ + 1 ]
          /\ UNCHANGED db
    /\ pc' = "range"
    /\ i' = i + 1
    /\ UNCHANGED << run, tableExists, resp, list, sendList, lookupRes,
                    lastMsg, postsOK, startDb, okIds, failIds, nPost, nPostOK,
                    nLookup, nFetch, examined, stages, failedAt, migrateErr,
                    lookupFailed >>

\* The process has ended (main returned, or log.Fatalf exited); the scheduler
\* invokes it again on the same database file.
NextRun ==
    /\ pc \in {"done", "fatal"}
    /\ run < MaxRuns
    /\ run' = run + 1
    /\ pc' = "load"
    /\ resp' = NoResp
    /\ list' = << >>
    /\ i' = 1
    /\ sendList' = ""
    /\ err' = "nil"
    /\ lookupRes' = "none"
    /\ lastMsg' = NoMsg
    /\ startDb' = Rows
    /\ okIds' = {}
    /\ failIds' = {}
    /\ nPost' = 0
    /\ nPostOK' = 0
    /\ nInsert' = 0
    /\ nLookup' = 0
    /\ nFetch' = 0
    /\ examined' = << >>
    /\ stages' = << >>
    /\ failedAt' = "none"
    /\ migrateErr' = FALSE
    /\ UNCHANGED << db, tableExists, postsOK, insertFailed, nFault,
                    lookupFailed >>

\* The statements of main other than the fetch.
Main ==
    \/ LoadConfig
    \/ OpenDatabase
    \/ AutoMigrate
    \/ DecodeJSON
    \/ RangeList
    \/ First
    \/ PostWebhook
    \/ Create

Next ==
    \/ Main
    \/ DoRequest(MainBodies)
    \/ NextRun

\* One invocation of the program.
Invocation ==
    \/ Main
    \/ DoRequest(MainBodies)

NextCurrency ==
    \/ Main
    \/ DoRequest(CurrencyBodies)
    \/ NextRun

Spec == Init /\ [][Next]_vars

\* One invocation on any stored table.  Every call main makes returns, so an
\* invocation that can take a step takes it.
FairSpec == InitStored /\ [][Invocation]_vars /\ WF_vars(Invocation)

SpecCurrency == Init /\ [][NextCurrency]_vars

(***************************************************************************)
(* Properties.                                                             *)
(***************************************************************************)
\* The fund the loop body is working on.
fund == list[i]

\* The label table as the specification states it: "1" -> "日本円",
\* "2" -> "USドル", "3" -> "AUドル", anything else -> "不明".
ExpectedLabel(currencyId) ==
    IF currencyId = "1" THEN "Nihon-en"
    ELSE IF currencyId = "2" THEN "US-doru"
    ELSE IF currencyId = "3" THEN "AU-doru"
    ELSE "fumei"

\* C9: the currency label of every fund the loop has examined is the label the
\* table gives for its currencyId ("1", "2", "3", and the unknown label for any
\* other string), and the message handed to the webhook has seven fields, the
\* seventh titled "通貨" with exactly that label of the posted fund as value.
C9_CurrencyLabel ==
    /\ \A k \in 1..Len(examined) :
          Currency(examined[k]) = ExpectedLabel(examined[k].CurrencyID)
    /\ pc = "insert" =>
          /\ Len(lastMsg.Fields) = 7
          /\ lastMsg.Fields[7].Title = "tsuuka"
          /\ lastMsg.Fields[7].Value = ExpectedLabel(fund.CurrencyID)

C9_Witness ==
    /\ pc = "insert"
    /\ fund.CurrencyID = "3"
    /\ lastMsg.Fields[7].Value = "AU-doru"
    /\ lastMsg.Fields[5].Value = "1.5%"

C3_NotifyThenPersist ==
    /\ (Rows \ startDb) \subseteq okIds
    /\ pc = "insert" =>
          /\ err = "nil"
          /\ lastMsg = WebhookMessage(fund)
          /\ fund.ID \in okIds
    /\ \A id \in failIds \ okIds : id \in Rows => id \in startDb

C3_Witness ==
    /\ pc = "done"
    /\ "F1" \in failIds \ okIds
    /\ "F1" \notin Rows
    /\ "" \in Rows \ startDb

\* C8: the stages start in the order load, open, fetch, decode, loop; a failed
\* config load leaves the run with no HTTP request at all (no fetch, no post)
\* and no database access, and a failed JSON decode leaves it with no webhook
\* post and no insert.
C8_StageOrder ==
    /\ IsPrefix(stages, StageOrder)
    /\ failedAt = "load" =>
          /\ stages = << "load" >>
          /\ nFetch = 0 /\ nPost = 0 /\ nLookup = 0 /\ nInsert = 0
    /\ failedAt = "decode" =>
          /\ stages = << "load", "open", "fetch", "decode" >>
          /\ nPost = 0 /\ nLookup = 0 /\ nInsert = 0
          /\ pc = "fatal"
    /\ nFetch > 0 => failedAt # "load"

C8_Witness ==
    /\ failedAt = "decode"
    /\ pc = "fatal"
    /\ run = 2
    /\ Rows # {}

\* C5: under the fairness of FairSpec, an invocation that enters the notify
\* loop reaches the end of main with every fund of the fetched list examined,
\* in the order of the list, and with no fatal error, whatever posts, lookups
\* and inserts failed on the way.
C5_LoopCompletes ==
    (pc = "range" /\ i = 1)
        ~> (pc = "done" /\ examined = list /\ failedAt = "none")

C5_Witness ==
    /\ pc = "done"
    /\ Len(list) >= 2
    /\ examined = list
    /\ list[1].ID \in failIds
    /\ insertFailed[list[2].ID] > 0
    /\ nInsert > 0
    /\ startDb # {}

C2_RecordedFundSkipped ==
    pc \in {"post", "insert"} => fund.ID \notin Rows

Distinct(funds) ==
    \A j, k \in 1..Len(funds) : funds[j].ID = funds[k].ID => j = k

\* C4 as stated, for a fetched list of funds with distinct ids: at the end of
\* the run the posts attempted are as many as the funds whose id had no row
\* when the loop started, and the inserts attempted as many as the posts that
\* succeeded.
C4_PostsEqualNewFunds ==
    (pc = "done" /\ Distinct(list)) =>
        /\ nPost = Cardinality({ k \in 1..Len(list) : list[k].ID \notin startDb })
        /\ nInsert = nPostOK

\* C6 as stated: a fetch that ends in a network failure, a status outside
\* 200..299 or a body that is no JSON is followed by no partial processing: no
\* fund is looked up, no webhook post is made and no row is inserted.
C6_BadFetchAborts ==
    (\/ failedAt = "fetch"
     \/ resp # NoResp /\ (resp.status \notin 200..299 \/ ~resp.body.json)) =>
        nLookup = 0 /\ nPost = 0 /\ nInsert = 0

\* C7 as stated: after a failed open or a failed migration the run issues no
\* HTTP fetch, no webhook post and no insert.
C7_PersistenceFailureAborts ==
    (failedAt = "open" \/ migrateErr) =>
        nFetch = 0 /\ nPost = 0 /\ nInsert = 0

====
